---- MODULE Spec2Model ----
(***************************************************************************)
(* A model of linked_list_hashmap.c: a hash map whose bucket array holds  *)
(* the first entry of every bucket inline and chains the colliding        *)
(* entries in heap nodes, with growth, removal, clearing and an external  *)
(* iterator.                                                              *)
(*                                                                        *)
(* Keys, values and chain-node addresses are positive integers; 0 is the  *)
(* C NULL.  The C heap is the function `heap` from node addresses to node *)
(* contents plus a `live` bit (malloc'ed and not yet free'd).             *)
(***************************************************************************)
EXTENDS Integers, Sequences, FiniteSets, TLC

\* ------------------------------------------------------------------ bounds
NumKeys == 3
MaxVal == 2
MaxInitSize == 4
MaxSize == 8
MaxFactor == 2

NULL == 0

\* The keys the callers use: the first NumKeys of the pool.
KeyPool == <<1, 5, 2, 6, 3, 7>>
Keys == {KeyPool[i] : i \in 1..NumKeys}
Vals == 1..MaxVal
\* Addresses calloc can hand out for chain nodes.
NodeIds == 1..NumKeys
\* The caller-supplied hash functions tried: the identity, x mod 4 and a
\* constant (every key in one bucket).
HashFns == {"id", "mod4", "zero"}

VARIABLES
    h,      \* the hashmap_t record: hash, arraySize, count, array
    heap,   \* chain nodes: address -> [key, val, next, live]
    iter,   \* the hashmap_iterator_t: cur, cur_linked
    last,   \* the most recent call: [op, key, val, ret, ok, dfree]
    it      \* the iteration since hashmap_iterator, as the caller saw it:
            \*   stale  cur_linked was passed to free() after it was stored
            \*   uaf    a freed chain node has been read through cur_linked
            \*   seen   the keys hashmap_iterator_next returned
            \*   dup    a key was returned twice
            \*   absent a returned key was not in the map when returned
            \*   done   the last hashmap_iterator_next returned NULL
            \*   lastk  the key the last hashmap_iterator_next returned
            \*   mk     the mutations of the map since hashmap_iterator
            \*   loop   where the caller is in its remove-while-iterating loop
            \*   active hashmap_iterator has been called

VARIABLE
    blocks  \* the calloc'ed blocks not yet freed, other than chain nodes:
            \* "map" (the hashmap_t record) and "array" (the bucket array)

vars == <<h, heap, iter, last, it, blocks>>

\* ------------------------------------------------------- caller's functions
\* h->hash
hash(fn, key) ==
    IF fn = "id" THEN key
    ELSE IF fn = "mod4" THEN key % 4
    ELSE 0

\* h->compare: integer comparison, 0 exactly on equal keys
compare(a, b) == IF a = b THEN 0 ELSE IF a < b THEN 0 - 1 ELSE 1

\* ------------------------------------------------------------------ memory
\* struct hash_node_s, zeroed
hash_node_t == [key |-> NULL, val |-> NULL, next |-> NULL]

\* calloc(count, sizeof(hash_node_t)) for the bucket array
__allocnodes(count) == [i \in 0..(count - 1) |-> hash_node_t]

\* calloc(1, sizeof(hash_node_t)) for a chain node: the address handed out
\* (the lowest one not in use)
alloc_addr(m) == CHOOSE n \in NodeIds :
                    /\ ~m.heap[n].live
                    /\ \A o \in NodeIds : ~m.heap[o].live => n <= o

\* free(node) of a chain node; what a freed node holds is no longer the
\* program's to read, so it is kept zeroed.  `freed` collects the addresses released during
\* the call; `dfree` records a free of a node that is not live.
free(m, n) ==
    [m EXCEPT !.heap[n] = [key |-> NULL, val |-> NULL, next |-> NULL, live |-> FALSE],
              !.freed = @ \cup {n},
              !.dfree = @ \/ ~m.heap[n].live]

\* The memory a call works on: the map record, the heap, what the call freed
\* so far, and whether its assertions held so far (ok).
Mem == [h |-> h, heap |-> heap, freed |-> {}, dfree |-> FALSE, ok |-> TRUE]

\* hashmap_new: the map record, with a zeroed bucket array
hashmap_new(fn, initial_capacity) ==
    [hash |-> fn, arraySize |-> initial_capacity, count |-> 0,
     array |-> __allocnodes(initial_capacity)]

\* ------------------------------------------------------------------ queries
hashmap_count(m) == m.h.count

hashmap_size(m) == m.h.arraySize

__doProbe(m, key) == hash(m.h.hash, key) % m.h.arraySize

RECURSIVE chain_get(_, _, _)
\* the do/while of hashmap_get, from a chain node on
chain_get(m, n, key) ==
    IF n = NULL THEN NULL
    ELSE IF compare(key, m.heap[n].key) = 0 THEN m.heap[n].val
    ELSE chain_get(m, m.heap[n].next, key)

hashmap_get(m, key) ==
    IF hashmap_count(m) = 0 \/ key = NULL THEN NULL
    ELSE LET node == m.h.array[__doProbe(m, key)] IN
         IF node.key = NULL THEN NULL
         ELSE IF compare(key, node.key) = 0 THEN node.val
         ELSE chain_get(m, node.next, key)

hashmap_contains_key(m, key) == hashmap_get(m, key) # NULL

\* ---------------------------------------------------------------- pointers
\* A hash_node_t* is either the address of a chain node (> 0), the address of
\* slot i of the bucket array (Slot(i) < 0), or NULL.
Slot(i) == 0 - (i + 1)

SlotIndex(p) == (0 - p) - 1

\* *p
deref(m, p) == IF p > 0 THEN m.heap[p] ELSE m.h.array[SlotIndex(p)]

\* p->ety.key = key
set_key(m, p, key) ==
    IF p > 0 THEN [m EXCEPT !.heap[p].key = key]
    ELSE [m EXCEPT !.h.array[SlotIndex(p)].key = key]

\* p->ety.val = val
set_val(m, p, val) ==
    IF p > 0 THEN [m EXCEPT !.heap[p].val = val]
    ELSE [m EXCEPT !.h.array[SlotIndex(p)].val = val]

\* p->next = next
set_next(m, p, next) ==
    IF p > 0 THEN [m EXCEPT !.heap[p].next = next]
    ELSE [m EXCEPT !.h.array[SlotIndex(p)].next = next]

\* ------------------------------------------------------------------- remove
\* remove_match with the h->count-- left out
remove_match_nocount(m, n, n_parent) ==
    LET entry == [key |-> deref(m, n).key, val |-> deref(m, n).val]
        unlinked ==
            IF n_parent = NULL
            THEN IF deref(m, n).next # NULL
                 THEN LET tmp == deref(m, n).next
                          m1 == set_val(set_key(m, n, m.heap[tmp].key), n, m.heap[tmp].val)
                          m2 == set_next(m1, n, m.heap[tmp].next)
                      IN free(m2, tmp)
                 ELSE set_key(m, n, NULL)
            ELSE free(set_next(m, n_parent, deref(m, n).next), n)
    IN [m |-> unlinked, entry |-> entry]

\* remove_match that empties a matching root slot without promoting the head
\* of its chain
remove_match_nopromote(m, n, n_parent) ==
    LET entry == [key |-> deref(m, n).key, val |-> deref(m, n).val]
        unlinked ==
            IF n_parent = NULL
            THEN set_key(m, n, NULL)
            ELSE free(set_next(m, n_parent, deref(m, n).next), n)
    IN [m |-> [unlinked EXCEPT !.h.count = @ - 1], entry |-> entry]

\* remove_match that promotes the head of the chain without freeing its node
remove_match_leak(m, n, n_parent) ==
    LET entry == [key |-> deref(m, n).key, val |-> deref(m, n).val]
        unlinked ==
            IF n_parent = NULL
            THEN IF deref(m, n).next # NULL
                 THEN LET tmp == deref(m, n).next
                          m1 == set_val(set_key(m, n, m.heap[tmp].key), n, m.heap[tmp].val)
                      IN set_next(m1, n, m.heap[tmp].next)
                 ELSE set_key(m, n, NULL)
            ELSE free(set_next(m, n_parent, deref(m, n).next), n)
    IN [m |-> [unlinked EXCEPT !.h.count = @ - 1], entry |-> entry]

\* the body of hashmap_remove_entry once the key matched at n
remove_match(m, n, n_parent) ==
    LET entry == [key |-> deref(m, n).key, val |-> deref(m, n).val]
        unlinked ==
            IF n_parent = NULL
            THEN IF deref(m, n).next # NULL
                 THEN LET tmp == deref(m, n).next
                          m1 == set_val(set_key(m, n, m.heap[tmp].key), n, m.heap[tmp].val)
                          m2 == set_next(m1, n, m.heap[tmp].next)
                      IN free(m2, tmp)
                 ELSE set_key(m, n, NULL)
            ELSE free(set_next(m, n_parent, deref(m, n).next), n)
    IN [m |-> [unlinked EXCEPT !.h.count = @ - 1], entry |-> entry]

RECURSIVE remove_loop(_, _, _, _)
\* the do/while of hashmap_remove_entry
remove_loop(m, key, n, n_parent) ==
    IF n = NULL
    THEN [m |-> m, entry |-> [key |-> NULL, val |-> NULL]]
    ELSE IF compare(key, deref(m, n).key) # 0
    THEN remove_loop(m, key, deref(m, n).next, n)
    ELSE remove_match(m, n, n_parent)

hashmap_remove_entry(m, key) ==
    LET n == Slot(__doProbe(m, key)) IN
    IF deref(m, n).key = NULL
    THEN [m |-> m, entry |-> [key |-> NULL, val |-> NULL]]
    ELSE remove_loop(m, key, n, NULL)

hashmap_remove(m, key) ==
    LET r == hashmap_remove_entry(m, key) IN [m |-> r.m, ret |-> r.entry.val]

\* ---------------------------------------------------------------------- put
\* the ceiling asserted on count
CountCeiling == 32768

\* __nodeassign with the node->ety.val = val left out
__nodeassign_noval(m, node, key, val) ==
    LET m1 == IF deref(m, node).key = NULL
              THEN [m EXCEPT !.h.count = @ + 1]
              ELSE m
        m2 == [m1 EXCEPT !.ok = @ /\ (m1.h.count < CountCeiling)]
    IN set_key(m2, node, key)

__nodeassign(m, node, key, val) ==
    LET m1 == IF deref(m, node).key = NULL
              THEN [m EXCEPT !.h.count = @ + 1]
              ELSE m
        m2 == [m1 EXCEPT !.ok = @ /\ (m1.h.count < CountCeiling)]
    IN set_val(set_key(m2, node, key), node, val)

RECURSIVE put_chain(_, _, _, _)
\* put_chain returning the value read after it was overwritten
put_chain_retnew(m, node, key, val_new) ==
    IF compare(key, deref(m, node).key) = 0
    THEN [m |-> set_val(m, node, val_new), ret |-> val_new]
    ELSE IF deref(m, node).next # NULL
    THEN put_chain(m, deref(m, node).next, key, val_new)
    ELSE LET a == alloc_addr(m)
             m1 == [m EXCEPT !.heap[a] = [key |-> NULL, val |-> NULL,
                                          next |-> NULL, live |-> TRUE]]
             m2 == set_next(m1, node, a)
         IN [m |-> __nodeassign(m2, a, key, val_new), ret |-> NULL]

\* put_chain counting a replaced entry as a new one
put_chain_recount(m, node, key, val_new) ==
    IF compare(key, deref(m, node).key) = 0
    THEN [m |-> [set_val(m, node, val_new) EXCEPT !.h.count = @ + 1],
          ret |-> deref(m, node).val]
    ELSE IF deref(m, node).next # NULL
    THEN put_chain(m, deref(m, node).next, key, val_new)
    ELSE LET a == alloc_addr(m)
             m1 == [m EXCEPT !.heap[a] = [key |-> NULL, val |-> NULL,
                                          next |-> NULL, live |-> TRUE]]
             m2 == set_next(m1, node, a)
         IN [m |-> __nodeassign(m2, a, key, val_new), ret |-> NULL]

\* the do/while of hashmap_put and the append that follows it
put_chain(m, node, key, val_new) ==
    IF compare(key, deref(m, node).key) = 0
    THEN [m |-> set_val(m, node, val_new), ret |-> deref(m, node).val]
    ELSE IF deref(m, node).next # NULL
    THEN put_chain(m, deref(m, node).next, key, val_new)
    ELSE LET a == alloc_addr(m)
             m1 == [m EXCEPT !.heap[a] = [key |-> NULL, val |-> NULL,
                                          next |-> NULL, live |-> TRUE]]
             m2 == set_next(m1, node, a)
         IN [m |-> __nodeassign(m2, a, key, val_new), ret |-> NULL]

\* SPACERATIO 0.5 as the fraction SpaceRatioNum / SpaceRatioDen
SpaceRatioNum == 1
SpaceRatioDen == 2

RECURSIVE hashmap_put(_, _, _)
RECURSIVE hashmap_increase_capacity(_, _)
RECURSIVE __ensurecapacity(_)
RECURSIVE rehash_chain(_, _)
RECURSIVE rehash_slots(_, _, _)

\* hashmap_put that grows the array before it looks at its arguments
hashmap_put_growfirst(m, key, val_new) ==
    LET m1 == __ensurecapacity(m) IN
    IF key = NULL \/ val_new = NULL
    THEN [m |-> m1, ret |-> NULL]
    ELSE LET node == Slot(__doProbe(m1, key))
         IN IF deref(m1, node).key = NULL
            THEN [m |-> __nodeassign(m1, node, key, val_new), ret |-> NULL]
            ELSE put_chain(m1, node, key, val_new)

hashmap_put(m, key, val_new) ==
    IF key = NULL \/ val_new = NULL
    THEN [m |-> m, ret |-> NULL]
    ELSE LET m1 == __ensurecapacity(m)
             node == Slot(__doProbe(m1, key))
         IN IF deref(m1, node).key = NULL
            THEN [m |-> __nodeassign(m1, node, key, val_new), ret |-> NULL]
            ELSE put_chain(m1, node, key, val_new)

\* rehash_chain that frees the chain nodes without re-adding them
rehash_chain_drop(m, node) ==
    IF node = NULL THEN m
    ELSE LET next == m.heap[node].next
         IN rehash_chain(free(m, node), next)

\* the while (node) loop of hashmap_increase_capacity: re-add and free the
\* chain nodes of one old bucket
rehash_chain(m, node) ==
    IF node = NULL THEN m
    ELSE LET next == m.heap[node].next
             m1 == hashmap_put(m, m.heap[node].key, m.heap[node].val).m
             m2 == [m1 EXCEPT !.ok = @ /\ (m1.heap[node].key # NULL)]
         IN rehash_chain(free(m2, node), next)

\* the for loop of hashmap_increase_capacity over the old array, from slot ii
rehash_slots(m, array_old, ii) ==
    IF ii >= Len(array_old) THEN m
    ELSE LET node == array_old[ii + 1] IN
         IF node.key = NULL
         THEN rehash_slots(m, array_old, ii + 1)
         ELSE rehash_slots(rehash_chain(hashmap_put(m, node.key, node.val).m, node.next),
                           array_old, ii + 1)

\* hashmap_increase_capacity that keeps the old buckets at their old indices
\* in the larger array instead of re-adding their entries
hashmap_increase_capacity_norehash(m, factor) ==
    LET asize_old == m.h.arraySize
    IN [m EXCEPT !.h.arraySize = asize_old * factor,
                 !.h.array = [i \in 0..(asize_old * factor - 1) |->
                                 IF i < asize_old THEN m.h.array[i]
                                 ELSE hash_node_t]]

\* hashmap_increase_capacity with the h->count = 0 left out
hashmap_increase_capacity_keepcount(m, factor) ==
    LET asize_old == m.h.arraySize
        array_old == [i \in 1..asize_old |-> m.h.array[i - 1]]
        m1 == [m EXCEPT !.h.arraySize = asize_old * factor,
                        !.h.array = __allocnodes(asize_old * factor)]
    IN rehash_slots(m1, array_old, 0)

hashmap_increase_capacity(m, factor) ==
    LET asize_old == m.h.arraySize
        array_old == [i \in 1..asize_old |-> m.h.array[i - 1]]
        m1 == [m EXCEPT !.h.arraySize = asize_old * factor,
                        !.h.array = __allocnodes(asize_old * factor),
                        !.h.count = 0]
    IN rehash_slots(m1, array_old, 0)

\* __ensurecapacity that grows only once the load is above SPACERATIO
__ensurecapacity_above(m) ==
    IF m.h.count * SpaceRatioDen <= SpaceRatioNum * m.h.arraySize
    THEN m
    ELSE hashmap_increase_capacity(m, 2)

\* (float) h->count / h->arraySize < SPACERATIO, on the exact quotient
__ensurecapacity(m) ==
    IF m.h.count * SpaceRatioDen < SpaceRatioNum * m.h.arraySize
    THEN m
    ELSE hashmap_increase_capacity(m, 2)

\* -------------------------------------------------------------------- clear
RECURSIVE __node_empty(_, _)
\* __node_empty with the h->count-- left out
__node_empty_nocount(m, node) ==
    IF node = NULL THEN m
    ELSE LET m1 == __node_empty(m, m.heap[node].next)
         IN free(m1, node)

\* free all the nodes in a chain, recursively
__node_empty(m, node) ==
    IF node = NULL THEN m
    ELSE LET m1 == __node_empty(m, m.heap[node].next)
         IN [free(m1, node) EXCEPT !.h.count = @ - 1]

RECURSIVE clear_slots(_, _)
\* the for loop of hashmap_clear, from slot ii
clear_slots(m, ii) ==
    IF ii >= m.h.arraySize THEN m
    ELSE LET node == Slot(ii) IN
         IF deref(m, node).key = NULL
         THEN clear_slots(m, ii + 1)
         ELSE LET m1 == set_key(m, node, NULL)
                  m2 == __node_empty(m1, deref(m1, node).next)
                  m3 == set_next(m2, node, NULL)
                  m4 == [m3 EXCEPT !.h.count = @ - 1]
              IN clear_slots([m4 EXCEPT !.ok = @ /\ (0 <= m4.h.count)], ii + 1)

hashmap_clear(m) ==
    LET m1 == clear_slots(m, 0)
    IN [m1 EXCEPT !.ok = @ /\ (0 = hashmap_count(m1))]

\* ----------------------------------------------------------------- iterator
\* hashmap_iterator
hashmap_iterator == [cur |-> 0, cur_linked |-> NULL]

RECURSIVE scan(_, _)
\* for (; iter->cur < h->arraySize; iter->cur++) if (node->ety.key) break;
scan(m, cur) ==
    IF cur < m.h.arraySize /\ m.h.array[cur].key = NULL
    THEN scan(m, cur + 1)
    ELSE cur

\* What a read of the chain node at address n can yield: its contents while
\* the pointer is good, anything at all once the node was freed.
NodeReads(m, n, stale) ==
    IF n = NULL
    THEN {[key |-> NULL, next |-> NULL]}
    ELSE IF stale
    THEN [key : Keys \cup {NULL}, next : NodeIds \cup {NULL}]
    ELSE {[key |-> m.heap[n].key, next |-> m.heap[n].next]}

\* hashmap_iterator_peek, given what *cur_linked reads as (rd)
hashmap_iterator_peek(m, i, rd) ==
    IF i.cur_linked = NULL
    THEN LET c == scan(m, i.cur) IN
         [iter |-> [i EXCEPT !.cur = c],
          ret |-> IF c < m.h.arraySize THEN m.h.array[c].key ELSE NULL,
          read |-> FALSE]
    ELSE [iter |-> i, ret |-> rd.key, read |-> TRUE]

hashmap_iterator_has_next(m, i, rd) ==
    LET r == hashmap_iterator_peek(m, i, rd) IN [r EXCEPT !.ret = IF r.ret # NULL THEN 1 ELSE 0]

\* hashmap_iterator_next that leaves iter->cur alone at the end of a chain
hashmap_iterator_next_nostep(m, i, rd) ==
    IF i.cur_linked # NULL
    THEN LET n_parent == m.h.array[i.cur] IN
         IF n_parent.next = NULL
         THEN [iter |-> [cur |-> i.cur + 1, cur_linked |-> NULL],
               ret |-> n_parent.key, read |-> FALSE]
         ELSE [iter |-> [cur |-> i.cur, cur_linked |-> rd.next],
               ret |-> rd.key, read |-> TRUE]
    ELSE LET c == scan(m, i.cur) IN
         IF m.h.arraySize = c
         THEN [iter |-> [i EXCEPT !.cur = c], ret |-> NULL, read |-> FALSE]
         ELSE LET n == m.h.array[c] IN
              IF n.next # NULL
              THEN [iter |-> [cur |-> c, cur_linked |-> n.next],
                    ret |-> n.key, read |-> FALSE]
              ELSE [iter |-> [cur |-> c + 1, cur_linked |-> NULL],
                    ret |-> n.key, read |-> FALSE]

\* hashmap_iterator_next, given what *cur_linked reads as (rd)
hashmap_iterator_next(m, i, rd) ==
    IF i.cur_linked # NULL
    THEN LET n_parent == m.h.array[i.cur] IN
         IF n_parent.next = NULL
         THEN [iter |-> [cur |-> i.cur + 1, cur_linked |-> NULL],
               ret |-> n_parent.key, read |-> FALSE]
         ELSE [iter |-> [cur |-> IF rd.next = NULL THEN i.cur + 1 ELSE i.cur,
                         cur_linked |-> rd.next],
               ret |-> rd.key, read |-> TRUE]
    ELSE LET c == scan(m, i.cur) IN
         IF m.h.arraySize = c
         THEN [iter |-> [i EXCEPT !.cur = c], ret |-> NULL, read |-> FALSE]
         ELSE LET n == m.h.array[c] IN
              IF n.next # NULL
              THEN [iter |-> [cur |-> c, cur_linked |-> n.next],
                    ret |-> n.key, read |-> FALSE]
              ELSE [iter |-> [cur |-> c + 1, cur_linked |-> NULL],
                    ret |-> n.key, read |-> FALSE]

\* ------------------------------------------------------------ observations
RECURSIVE chain_entries(_, _)
\* the entries of a chain, from node n on, in chain order
chain_entries(m, n) ==
    IF n = NULL THEN <<>>
    ELSE <<[key |-> m.heap[n].key, val |-> m.heap[n].val]>>
             \o chain_entries(m, m.heap[n].next)

\* the entries of bucket i: the root entry, then the chain
bucket_entries(m, i) ==
    LET node == m.h.array[i] IN
    IF node.key = NULL THEN <<>>
    ELSE <<[key |-> node.key, val |-> node.val]>> \o chain_entries(m, node.next)

\* the (key, value) pairs stored in the map
Entries(m) ==
    UNION {{bucket_entries(m, i)[j] : j \in 1..Len(bucket_entries(m, i))}
               : i \in 0..(m.h.arraySize - 1)}

\* the keys Get finds
KeysOf(m) == {k \in Keys : hashmap_get(m, k) # NULL}

\* ------------------------------------------------------------------- state
NoCall == [op |-> "new", key |-> NULL, val |-> NULL, ret |-> NULL,
           ok |-> TRUE, dfree |-> FALSE]

Call(op, key, val, ret, m) ==
    [op |-> op, key |-> key, val |-> val, ret |-> ret, ok |-> m.ok, dfree |-> m.dfree]

FreshIt == [active |-> FALSE, stale |-> FALSE, uaf |-> FALSE, seen |-> {},
            dup |-> FALSE, absent |-> FALSE, done |-> FALSE, lastk |-> NULL,
            mk |-> "none", loop |-> "hasnext"]

\* The mutations since hashmap_iterator, summarised: "none"; "cur", only
\* removals of the key Next returned last; "visited", only removals of keys
\* Next had returned; "unvisited", only removals of keys Next had not returned;
\* "mixed", anything else.
Join(mk, kind) ==
    IF kind = "none" THEN mk
    ELSE IF mk = "none" THEN kind
    ELSE IF mk = kind THEN mk
    ELSE IF {mk, kind} = {"cur", "visited"} THEN "visited"
    ELSE "mixed"

RemoveKind(key, found) ==
    IF ~found THEN "none"
    ELSE IF key = it.lastk THEN "cur"
    ELSE IF key \in it.seen THEN "visited"
    ELSE "unvisited"

\* The caller's loop  { if (!has_next) break; k = next; remove(k); } : the call
\* the loop makes next, "end" once has_next said no, "off" once the caller made
\* any other call.
LoopStep(loop, op, key, ret) ==
    IF loop = "hasnext" /\ op = "has_next" THEN (IF ret # 0 THEN "next" ELSE "end")
    ELSE IF loop = "next" /\ op = "next" THEN "remove"
    ELSE IF loop = "remove" /\ op = "remove" /\ key = it.lastk THEN "hasnext"
    ELSE "off"

\* A map call during an iteration left m behind: the iterator's pointer goes
\* stale if the call freed the node it points to.
Mutated(m, kind, op, key) ==
    IF ~it.active THEN it
    ELSE [it EXCEPT !.stale = @ \/ (iter.cur_linked \in m.freed),
                    !.mk = Join(@, kind),
                    !.loop = LoopStep(@, op, key, NULL)]

Init ==
    /\ \E fn \in HashFns, initial_capacity \in 1..MaxInitSize :
          h = hashmap_new(fn, initial_capacity)
    /\ heap = [n \in NodeIds |-> [key |-> NULL, val |-> NULL, next |-> NULL,
                                 live |-> FALSE]]
    /\ iter = hashmap_iterator
    /\ last = NoCall
    /\ it = FreshIt
    /\ blocks = {"map", "array"}

\* ---------------------------------------------------------------- free all
\* hashmap_free
hashmap_free(m) == hashmap_clear(m)

\* hashmap_freeall, on the memory m and the live blocks b
hashmap_freeall(m, b) == [m |-> hashmap_free(m), blocks |-> b \ {"map"}]

\* the map record has not been freed
Alive == "map" \in blocks

\* ----------------------------------------------------------------- actions
\* The caller builds the map with any calls (it.active is false), then creates
\* an iterator and from there on calls the iterator and Remove.  A read of a
\* freed node is undefined behaviour: the read yields any value (NodeReads) and
\* the iterator is followed no further than that read.
Get ==
    /\ Alive /\ UNCHANGED blocks
    /\ ~it.active
    /\ \E key \in Keys \cup {NULL} :
        /\ last' = Call("get", key, NULL, hashmap_get(Mem, key), Mem)
        /\ UNCHANGED <<h, heap, iter, it>>

Put ==
    /\ Alive /\ UNCHANGED blocks
    /\ ~it.active
    /\ \E key \in Keys \cup {NULL}, val \in Vals \cup {NULL} :
        LET r == hashmap_put(Mem, key, val) IN
        /\ h' = r.m.h
        /\ heap' = r.m.heap
        /\ last' = Call("put", key, val, r.ret, r.m)
        /\ UNCHANGED <<iter, it>>

Remove ==
    /\ Alive /\ UNCHANGED blocks
    /\ \E key \in Keys :
        LET r == hashmap_remove(Mem, key) IN
        /\ h' = r.m.h
        /\ heap' = r.m.heap
        /\ last' = Call("remove", key, NULL, r.ret, r.m)
        /\ it' = Mutated(r.m, RemoveKind(key, r.ret # NULL), "remove", key)
        /\ UNCHANGED iter

Grow ==
    /\ Alive /\ UNCHANGED blocks
    /\ ~it.active
    /\ \E factor \in 1..MaxFactor :
        /\ h.arraySize * factor <= MaxSize
        /\ LET m == hashmap_increase_capacity(Mem, factor) IN
           /\ h' = m.h
           /\ heap' = m.heap
           /\ last' = Call("grow", factor, NULL, NULL, m)
        /\ UNCHANGED <<iter, it>>

Clear ==
    /\ Alive /\ UNCHANGED blocks
    /\ ~it.active
    /\ LET m == hashmap_clear(Mem) IN
       /\ h' = m.h
       /\ heap' = m.heap
       /\ last' = Call("clear", NULL, NULL, NULL, m)
    /\ UNCHANGED <<iter, it>>

Iterator ==
    /\ Alive /\ UNCHANGED blocks
    /\ ~it.active
    /\ iter' = hashmap_iterator
    /\ it' = [FreshIt EXCEPT !.active = TRUE]
    /\ last' = Call("iterator", NULL, NULL, NULL, Mem)
    /\ UNCHANGED <<h, heap>>

Peek ==
    /\ Alive /\ UNCHANGED blocks
    /\ it.active /\ ~it.uaf
    /\ \E rd \in NodeReads(Mem, iter.cur_linked, it.stale) :
        LET r == hashmap_iterator_peek(Mem, iter, rd) IN
        /\ iter' = r.iter
        /\ it' = [it EXCEPT !.uaf = @ \/ (r.read /\ it.stale),
                            !.loop = LoopStep(@, "peek", NULL, r.ret)]
        /\ last' = Call("peek", NULL, NULL, r.ret, Mem)
        /\ UNCHANGED <<h, heap>>

HasNext ==
    /\ Alive /\ UNCHANGED blocks
    /\ it.active /\ ~it.uaf
    /\ \E rd \in NodeReads(Mem, iter.cur_linked, it.stale) :
        LET r == hashmap_iterator_has_next(Mem, iter, rd) IN
        /\ iter' = r.iter
        /\ it' = [it EXCEPT !.uaf = @ \/ (r.read /\ it.stale),
                            !.loop = LoopStep(@, "has_next", NULL, r.ret)]
        /\ last' = Call("has_next", NULL, NULL, r.ret, Mem)
        /\ UNCHANGED <<h, heap>>

IterNext ==
    /\ Alive /\ UNCHANGED blocks
    /\ it.active /\ ~it.uaf
    /\ \E rd \in NodeReads(Mem, iter.cur_linked, it.stale) :
        LET r == hashmap_iterator_next(Mem, iter, rd) IN
        /\ iter' = r.iter
        /\ it' = [it EXCEPT
                    !.uaf = @ \/ (r.read /\ it.stale),
                    !.stale = r.iter.cur_linked # NULL /\ r.read /\ it.stale,
                    !.seen = IF r.ret = NULL THEN @ ELSE @ \cup {r.ret},
                    !.dup = @ \/ (r.ret # NULL /\ r.ret \in it.seen),
                    !.absent = @ \/ (r.ret # NULL /\ r.ret \notin KeysOf(Mem)),
                    !.done = (r.ret = NULL),
                    !.lastk = r.ret,
                    !.loop = LoopStep(@, "next", NULL, r.ret)]
        /\ last' = Call("next", NULL, NULL, r.ret, Mem)
        /\ UNCHANGED <<h, heap>>

\* hashmap_freeall ends the life of the map: no call follows it.
FreeAll ==
    /\ Alive
    /\ ~it.active
    /\ LET r == hashmap_freeall(Mem, blocks) IN
       /\ h' = r.m.h
       /\ heap' = r.m.heap
       /\ blocks' = r.blocks
       /\ last' = Call("freeall", NULL, NULL, NULL, r.m)
    /\ UNCHANGED <<iter, it>>

Next ==
    \/ Get \/ Put \/ Remove \/ Grow \/ Clear \/ FreeAll
    \/ Iterator \/ Peek \/ HasNext \/ IterNext

Spec == Init /\ [][Next]_vars

\* -------------------------------------------------------------- properties
\* the memory after the step
MemNext == [h |-> h', heap |-> heap', freed |-> {}, dfree |-> FALSE, ok |-> TRUE]

\* the number of entries stored in the map
NumEntries(m) ==
    LET RECURSIVE sum(_)
        sum(i) == IF i >= m.h.arraySize THEN 0
                  ELSE Len(bucket_entries(m, i)) + sum(i + 1)
    IN sum(0)

\* the number of entries stored under key
NumWithKey(m, key) ==
    LET RECURSIVE sum(_)
        sum(i) == IF i >= m.h.arraySize THEN 0
                  ELSE Cardinality({j \in 1..Len(bucket_entries(m, i)) :
                                        bucket_entries(m, i)[j].key = key})
                       + sum(i + 1)
    IN sum(0)

\* some bucket has a chain
HasChain(m) == \E i \in 0..(m.h.arraySize - 1) : m.h.array[i].next # NULL

\* key is stored in a chain node
InChain(m, key) == \E n \in NodeIds : m.heap[n].live /\ m.heap[n].key = key

\* C1: after Put(k, v) with non-null k and v, Get(k) returns v.
C1_PutThenGet ==
    (last.op = "put" /\ last.key # NULL /\ last.val # NULL)
        => hashmap_get(Mem, last.key) = last.val

\* C1 witness: a Put appended its key to a chain, and Get finds it.
C1_Witness ==
    /\ last.op = "put" /\ last.key # NULL /\ last.val # NULL /\ last.ret = NULL
    /\ InChain(Mem, last.key)
    /\ hashmap_get(Mem, last.key) = last.val

\* C2: Remove(k) of a key present with value v returns v, Get(k) then finds
\* nothing, Count() is one less, and every other key keeps its value.
C2_Remove ==
    [][(last'.op = "remove" /\ hashmap_get(Mem, last'.key) # NULL)
        => /\ last'.ret = hashmap_get(Mem, last'.key)
           /\ hashmap_get(MemNext, last'.key) = NULL
           /\ hashmap_count(MemNext) = hashmap_count(Mem) - 1
           /\ \A k \in Keys \ {last'.key} :
                 hashmap_get(MemNext, k) = hashmap_get(Mem, k)]_vars

\* C2 witness: a Remove returned a value and left its bucket occupied (the
\* key was a root with a chain, or a chain node).
C2_Witness ==
    /\ last.op = "remove" /\ last.ret # NULL
    /\ h.array[__doProbe(Mem, last.key)].key # NULL
    /\ hashmap_get(Mem, last.key) = NULL

\* C3: Put(k, v2) on a key mapped to v1 returns v1, leaves Count() unchanged
\* and leaves exactly one entry for k.
C3_PutReplace ==
    [][(/\ last'.op = "put" /\ last'.key # NULL /\ last'.val # NULL
        /\ hashmap_get(Mem, last'.key) # NULL)
        => /\ last'.ret = hashmap_get(Mem, last'.key)
           /\ hashmap_count(MemNext) = hashmap_count(Mem)
           /\ NumWithKey(MemNext, last'.key) = 1]_vars

\* C3 witness: a Put returned a previous value different from the new one.
C3_Witness ==
    /\ last.op = "put" /\ last.ret # NULL /\ last.ret # last.val
    /\ hashmap_get(Mem, last.key) = last.val

\* C4: with no mutation since hashmap_iterator, the Next calls return no key
\* twice and no key that is not in the map, read no freed node, and when Next
\* returns none the keys returned are exactly the keys of the map.
C4_IterateAll ==
    (it.active /\ it.mk = "none")
        => /\ ~it.dup /\ ~it.absent /\ ~it.uaf
           /\ it.done => it.seen = KeysOf(Mem)

\* C4 witness: an iteration over a map with a chain and a second occupied
\* bucket ran to the end without any mutation.
C4_Witness ==
    /\ it.active /\ it.mk = "none" /\ it.done /\ last.op = "next"
    /\ HasChain(Mem) /\ Cardinality(it.seen) = NumKeys
    /\ \E i, j \in 0..(h.arraySize - 1) :
          i # j /\ h.array[i].key # NULL /\ h.array[j].key # NULL

\* C5: the loop { if (!has_next) break; k = next; remove(k); } run from a
\* fresh iterator reads no freed chain node, returns every key once and ends
\* with Count() == 0.
C5_RemoveWhileIterating ==
    (it.active /\ it.loop # "off")
        => /\ ~it.uaf /\ ~it.dup /\ ~it.absent
           /\ it.loop = "end" => hashmap_count(Mem) = 0

\* C6: after Remove of the key Next returned last (and no other mutation),
\* the following Next reads no freed chain node and does not return a key
\* that is no longer in the map.
C6_NextAfterRemoveCurrent ==
    [][(/\ it.active /\ it.mk = "cur" /\ ~it.uaf /\ ~it.absent
        /\ last'.op = "next")
        => (~it'.uaf /\ ~it'.absent)]_vars

\* C7: after Remove of keys Next has not returned yet (and no other
\* mutation), the Next calls read no freed chain node, return no removed key,
\* return no key twice, and have returned every key left in the map when Next
\* returns none.
C7_RemoveUnvisited ==
    [][(/\ it.active /\ it.mk = "unvisited" /\ ~it.uaf /\ ~it.absent /\ ~it.dup
        /\ last'.op = "next")
        => /\ ~it'.uaf /\ ~it'.absent /\ ~it'.dup
           /\ it'.done => KeysOf(Mem) \subseteq it'.seen]_vars

\* C8: after Remove of keys Next has already returned (and no other
\* mutation), the iteration goes on as if nothing was removed: it reads no
\* freed chain node, and when Next returns none every key of the map was
\* returned, each once.
C8_RemoveVisited ==
    (it.active /\ it.mk \in {"cur", "visited"} /\ last.op = "next")
        => /\ ~it.uaf /\ ~it.dup
           /\ it.done => KeysOf(Mem) \subseteq it.seen

\* the map b holds what the map a held: same count, same pairs, same number
\* of entries
SameEntries(a, b) ==
    /\ hashmap_count(b) = hashmap_count(a)
    /\ Entries(b) = Entries(a)
    /\ NumEntries(b) = NumEntries(a)
    /\ \A k \in Keys : hashmap_get(b, k) = hashmap_get(a, k)

\* C9: a resize, by Grow(factor) or by the check inside Put, leaves Count()
\* and the set of (key, value) pairs as they were.
C9_ResizeKeepsEntries ==
    [][/\ last'.op = "grow" => SameEntries(Mem, MemNext)
       /\ (last'.op = "put" /\ last'.key # NULL /\ last'.val # NULL
            /\ hashmap_size(MemNext) # hashmap_size(Mem))
           => /\ hashmap_size(__ensurecapacity(Mem)) = hashmap_size(MemNext)
              /\ SameEntries(Mem, __ensurecapacity(Mem))]_vars

\* C9 witness: a Grow ran on a map that has a chain after it.
C9_Witness ==
    /\ last.op = "grow" /\ HasChain(Mem) /\ hashmap_count(Mem) = NumKeys

\* C10: after Clear, Count() is 0, Get finds no key, and the assertions of
\* Clear held.
C10_Clear ==
    last.op = "clear"
        => /\ hashmap_count(Mem) = 0
           /\ last.ok
           /\ Entries(Mem) = {}
           /\ \A k \in Keys : hashmap_get(Mem, k) = NULL

\* C10 witness: a Clear emptied a slot that was occupied (the slot still holds
\* the value it had).
C10_Witness ==
    /\ last.op = "clear" /\ hashmap_count(Mem) = 0
    /\ \E i \in 0..(h.arraySize - 1) : h.array[i].key = NULL /\ h.array[i].val # NULL

\* C11: after hashmap_freeall nothing the map allocated is left unreleased:
\* no chain node, not the bucket array, not the map record.
C11_FreeAllReleasesAll ==
    last.op = "freeall"
        => /\ \A n \in NodeIds : ~heap[n].live
           /\ blocks = {}

\* C12: Grow(factor) on a map whose bucket array has length N leaves
\* Size() == N * factor.
C12_GrowSize ==
    [][last'.op = "grow"
        => hashmap_size(MemNext) = hashmap_size(Mem) * last'.key]_vars

\* C13: Put with a null key or a null value returns NULL and changes nothing:
\* not Count(), not Size(), not a stored entry.
C13_PutNull ==
    [][(last'.op = "put" /\ (last'.key = NULL \/ last'.val = NULL))
        => /\ last'.ret = NULL
           /\ h' = h
           /\ heap' = heap]_vars

\* C13 witness: a Put with a null key or value was made on a map whose load
\* factor is at least SPACERATIO, and the array was not resized.
C13_Witness ==
    /\ last.op = "put" /\ (last.key = NULL \/ last.val = NULL)
    /\ h.count * SpaceRatioDen >= SpaceRatioNum * h.arraySize
    /\ HasChain(Mem)

\* The memory a fresh heap and the map record hm make
FreshMem(hm) ==
    [h |-> hm,
     heap |-> [n \in NodeIds |-> [key |-> NULL, val |-> NULL, next |-> NULL,
                                  live |-> FALSE]],
     freed |-> {}, dfree |-> FALSE, ok |-> TRUE]

\* The maps of the scenario: new map of size 4 with hash(x) = x mod 4, then
\* Put(1, a), Put(5, b), Put(2, c) with a = 1, b = 2 and any value c.
Scenario14 ==
    LET m0 == FreshMem(hashmap_new("mod4", 4))
        m1 == hashmap_put(m0, 1, 1).m
        m2 == hashmap_put(m1, 5, 2).m
    IN {hashmap_put(m2, 2, c).m : c \in Vals}

\* the map of the scenario after Remove(1)
Scenario14Removed == {hashmap_remove(m, 1).m : m \in Scenario14}

\* the current map is a map of the scenario
InScenario14 == \E m \in Scenario14 : h = m.h /\ heap = m.heap

\* C14: on a new map of size 4 with hash(x) = x mod 4, after Put(1, a),
\* Put(5, b), Put(2, c): Get(5) returns b; Remove(1) returns a and leaves
\* (5, b), until then in the chain of bucket 1, in the root slot of bucket 1
\* with no chain behind it; Get(5) still returns b and Count() is 2.
C14_Scenario ==
    [][InScenario14
        => /\ hashmap_get(Mem, 5) = 2
           /\ InChain(Mem, 5)
           /\ (last'.op = "get" /\ last'.key = 5) => last'.ret = 2
           /\ (last'.op = "remove" /\ last'.key = 1)
                 => /\ last'.ret = 1
                    /\ bucket_entries(MemNext, 1) = <<[key |-> 5, val |-> 2]>>
                    /\ h'.array[1].key = 5 /\ h'.array[1].val = 2
                    /\ h'.array[1].next = NULL
                    /\ ~InChain(MemNext, 5)
                    /\ hashmap_get(MemNext, 5) = 2
                    /\ hashmap_count(MemNext) = 2]_vars

\* C14 witness: Remove(1) has just run on the map of the scenario.
C14_Witness ==
    /\ last.op = "remove" /\ last.key = 1 /\ last.ret = 1
    /\ \E m \in Scenario14Removed : h = m.h /\ heap = m.heap
    /\ h.array[1].key = 5

\* new maps with initial size 4, and the maps after inserting one, two and
\* three distinct keys
NewMaps15 == {FreshMem(hashmap_new(fn, 4)) : fn \in HashFns}
OnePut15 == {hashmap_put(m, k, v).m : m \in NewMaps15, k \in Keys, v \in Vals}
TwoPuts15 ==
    UNION {{hashmap_put(m, k, v).m : k \in Keys \ KeysOf(m), v \in Vals}
               : m \in OnePut15}
ThreePuts15 ==
    UNION {{hashmap_put(m, k, v).m : k \in Keys \ KeysOf(m), v \in Vals}
               : m \in TwoPuts15}

\* the current map is one of the maps in S
IsOneOf(S) == \E m \in S : h = m.h /\ heap = m.heap

\* the step is a Put of a key that was not present
PutsNewKey ==
    /\ last'.op = "put" /\ last'.key # NULL /\ last'.val # NULL
    /\ last'.key \notin KeysOf(Mem)

\* C15 as stated: on a new map of initial size 4, after three distinct keys
\* the array still has size 4, and the fourth Put grows it to 8 before
\* inserting, keeping the earlier keys retrievable.
C15_GrowOnFourthPut ==
    [][IsOneOf(ThreePuts15)
        => /\ hashmap_size(Mem) = 4
           /\ PutsNewKey
                 => /\ hashmap_size(__ensurecapacity(Mem)) = 8
                    /\ hashmap_size(MemNext) = 8
                    /\ \A k \in KeysOf(Mem) :
                          hashmap_get(MemNext, k) = hashmap_get(Mem, k)]_vars

\* C15 amended: on a new map of initial size 4, after two distinct keys the
\* array still has size 4 (load factor 0.5), and the next (third) Put of a
\* new key grows the array to 8 before inserting: Size() is 8 afterward and
\* the earlier keys keep their values; after three distinct keys the size is
\* 8 and a further Put leaves it at 8.
C15_GrowOnThirdPut ==
    [][/\ IsOneOf(TwoPuts15)
          => /\ hashmap_size(Mem) = 4
             /\ hashmap_count(Mem) = 2
             /\ PutsNewKey
                   => /\ hashmap_size(__ensurecapacity(Mem)) = 8
                      /\ hashmap_count(__ensurecapacity(Mem)) = 2
                      /\ hashmap_size(MemNext) = 8
                      /\ hashmap_count(MemNext) = 3
                      /\ hashmap_get(MemNext, last'.key) = last'.val
                      /\ \A k \in KeysOf(Mem) :
                            hashmap_get(MemNext, k) = hashmap_get(Mem, k)
       /\ IsOneOf(ThreePuts15)
          => /\ hashmap_size(Mem) = 8
             /\ last'.op = "put" => hashmap_size(MemNext) = 8]_vars

\* C15 witness: the third distinct key has just been put into a map of
\* initial size 4, which now has size 8 and finds all three keys.
C15_Witness ==
    /\ last.op = "put" /\ last.ret = NULL /\ last.key # NULL /\ last.val # NULL
    /\ IsOneOf(ThreePuts15)
    /\ hashmap_size(Mem) = 8
    /\ hashmap_count(Mem) = 3
    /\ KeysOf(Mem) = Keys

\* the number of occupied root slots
NumRoots(m) == Cardinality({i \in 0..(m.h.arraySize - 1) : m.h.array[i].key # NULL})

RECURSIVE chain_len(_, _)
\* the number of chain nodes from node n on
chain_len(m, n) == IF n = NULL THEN 0 ELSE 1 + chain_len(m, m.heap[n].next)

\* the number of chain nodes reachable from the bucket array
NumChained(m) ==
    LET RECURSIVE sum(_)
        sum(i) == IF i >= m.h.arraySize THEN 0
                  ELSE chain_len(m, m.h.array[i].next) + sum(i + 1)
    IN sum(0)

\* C16: between calls, count is non-negative and equals the number of
\* entries reachable from the bucket array: occupied root slots plus chain
\* nodes.
C16_CountIsEntries ==
    /\ h.count >= 0
    /\ h.count = NumRoots(Mem) + NumChained(Mem)
    /\ h.count = NumEntries(Mem)

\* C16 witness: a resize has just rebuilt a map that holds root entries and
\* chain nodes.
C16_Witness ==
    /\ last.op = "grow"
    /\ NumRoots(Mem) >= 1 /\ NumChained(Mem) >= 1
    /\ h.count = NumRoots(Mem) + NumChained(Mem)

\* the keys of each bucket, in chain order
Layout(m) ==
    [i \in 0..(m.h.arraySize - 1) |->
        [j \in 1..Len(bucket_entries(m, i)) |-> bucket_entries(m, i)[j].key]]

\* the chain nodes as they are linked: which are allocated, and the key and
\* the successor of each
Links(m) ==
    [n \in NodeIds |-> [key |-> m.heap[n].key, next |-> m.heap[n].next,
                        live |-> m.heap[n].live]]

\* the step is a Put of a key that was present
PutsOldKey ==
    /\ last'.op = "put" /\ last'.key # NULL /\ last'.val # NULL
    /\ hashmap_get(Mem, last'.key) # NULL

\* the load factor count / arraySize is below SPACERATIO
LowLoad(m) == m.h.count * SpaceRatioDen < SpaceRatioNum * m.h.arraySize

\* C17 as stated: a Put of a key already present leaves Size(), Count() and
\* the bucket and chain position of every entry as they were.
C17_ReplaceKeepsLayout ==
    [][PutsOldKey
        => /\ hashmap_size(MemNext) = hashmap_size(Mem)
           /\ hashmap_count(MemNext) = hashmap_count(Mem)
           /\ Layout(MemNext) = Layout(Mem)]_vars

\* C17 amended: a Put of a key already present returns the old value, stores
\* the new one, and leaves Count() and every other key's value as they were.
\* If count / Size() < 0.5 before the call, Size() and the bucket, chain
\* position and node address of every entry are unchanged; otherwise the
\* array is doubled first and the entries are placed again in the new array.
C17_ReplaceKeepsEntries ==
    [][PutsOldKey
        => /\ last'.ret = hashmap_get(Mem, last'.key)
           /\ hashmap_get(MemNext, last'.key) = last'.val
           /\ \A k \in Keys \ {last'.key} :
                 hashmap_get(MemNext, k) = hashmap_get(Mem, k)
           /\ hashmap_count(MemNext) = hashmap_count(Mem)
           /\ NumEntries(MemNext) = NumEntries(Mem)
           /\ IF LowLoad(Mem)
              THEN /\ hashmap_size(MemNext) = hashmap_size(Mem)
                   /\ Layout(MemNext) = Layout(Mem)
                   /\ Links(MemNext) = Links(Mem)
              ELSE /\ hashmap_size(MemNext) = 2 * hashmap_size(Mem)
                   /\ \A i \in 0..(hashmap_size(MemNext) - 1) :
                         \A j \in 1..Len(Layout(MemNext)[i]) :
                            __doProbe(MemNext, Layout(MemNext)[i][j]) = i]_vars

\* C17 witness: a Put has just replaced the value held by a chain node.
C17_Witness ==
    /\ last.op = "put" /\ last.ret # NULL /\ last.ret # last.val
    /\ InChain(Mem, last.key)
    /\ hashmap_get(Mem, last.key) = last.val
    /\ LowLoad(Mem)

RECURSIVE reach_from(_, _, _)
\* the chain nodes met from node n on in at most fuel steps along next
reach_from(m, n, fuel) ==
    IF n = NULL \/ fuel = 0 THEN {}
    ELSE {n} \cup reach_from(m, m.heap[n].next, fuel - 1)

\* the chain nodes reachable from the bucket slots
Reachable(m) ==
    UNION {reach_from(m, m.h.array[i].next, Cardinality(NodeIds))
               : i \in 0..(m.h.arraySize - 1)}

\* the number of pointers to chain node n: from bucket slots and from
\* allocated chain nodes
NumPreds(m, n) ==
    Cardinality({i \in 0..(m.h.arraySize - 1) : m.h.array[i].next = n})
        + Cardinality({p \in NodeIds : m.heap[p].live /\ m.heap[p].next = n})

\* C18: between calls, the allocated chain nodes are exactly the nodes
\* reachable from the bucket slots, each has exactly one predecessor (a slot
\* or a chain node), no chain leads back to one of its nodes, the last call
\* freed no node twice, and an empty root slot has no chain.
C18_Ownership ==
    /\ {n \in NodeIds : heap[n].live} = Reachable(Mem)
    /\ \A n \in NodeIds : heap[n].live => NumPreds(Mem, n) = 1
    /\ \A n \in NodeIds :
          heap[n].live => n \notin reach_from(Mem, heap[n].next, Cardinality(NodeIds))
    /\ ~last.dfree
    /\ \A i \in 0..(h.arraySize - 1) :
          h.array[i].key = NULL => h.array[i].next = NULL

\* C18 witness: Remove has just promoted the head of a chain of two into the
\* root slot and freed its node; the second chain node is still attached.
C18_Witness ==
    /\ last.op = "remove" /\ last.ret # NULL
    /\ Reachable(Mem) = {2}
    /\ ~heap[1].live
    /\ \E i \in 0..(h.arraySize - 1) : h.array[i].next = 2

\* C19: between calls, every entry stored in bucket i, in the root slot or
\* in the chain, has hash(key) mod N = i for the current array size N, and
\* no two stored entries have keys that compare equal.
C19_BucketOfHash ==
    /\ \A i \in 0..(h.arraySize - 1) :
          \A j \in 1..Len(bucket_entries(Mem, i)) :
             hash(h.hash, bucket_entries(Mem, i)[j].key) % h.arraySize = i
    /\ \A i1, i2 \in 0..(h.arraySize - 1) :
          \A j1 \in 1..Len(bucket_entries(Mem, i1)) :
             \A j2 \in 1..Len(bucket_entries(Mem, i2)) :
                compare(bucket_entries(Mem, i1)[j1].key,
                        bucket_entries(Mem, i2)[j2].key) = 0
                    => (i1 = i2 /\ j1 = j2)

\* C19 witness: a resize has just placed keys 1 and 5, which share a bucket
\* in an array of size 4, in buckets 1 and 5 of an array of size 8.
C19_Witness ==
    /\ last.op = "grow"
    /\ h.hash = "id"
    /\ h.arraySize = 8
    /\ h.array[1].key = 1 /\ h.array[1].next = NULL
    /\ h.array[5].key = 5

\* rd is what *cur_linked reads as after the step, and agrees with what the
\* Peek or HasNext of the step read there
SameRead(rd) ==
    /\ rd \in NodeReads(MemNext, iter'.cur_linked, it'.stale)
    /\ iter'.cur_linked # NULL
          => IF last'.op = "peek"
             THEN rd.key = last'.ret
             ELSE (rd.key # NULL) <=> (last'.ret # 0)

\* C20: with no mutation of the map in between, Peek returns the key the
\* immediately following Next returns (none exactly when Next returns none,
\* so HasNext is true iff the following Next returns a key); Peek and
\* HasNext leave the map alone; and Next returns the same key, and leaves
\* the same cursor, whether or not Peek or HasNext was called before it.
C20_PeekIsNext ==
    [][last'.op \in {"peek", "has_next"}
        => /\ h' = h /\ heap' = heap
           /\ \A rd \in [key : Keys \cup {NULL}, next : NodeIds \cup {NULL}] :
                 SameRead(rd)
                    => /\ last'.op = "peek"
                            => hashmap_iterator_next(MemNext, iter', rd).ret = last'.ret
                       /\ last'.op = "has_next"
                            => ((last'.ret # 0)
                                  <=> (hashmap_iterator_next(MemNext, iter', rd).ret # NULL))
                       /\ hashmap_iterator_next(MemNext, iter', rd)
                             = hashmap_iterator_next(Mem, iter, rd)]_vars

====
